---- MODULE Spec2Model ----
(***************************************************************************)
(* Model of VocalRangeCalculator (src/vocal_app.py, src/app.py): the note  *)
(* codec, the key transposer, the range model and the transposition        *)
(* solver.                                                                 *)
(*                                                                         *)
(* A Python str is modelled as the sequence of its characters, each        *)
(* character being a one-character TLA+ string, so that upper(), replace(),*)
(* endswith() and concatenation are computed and not assumed.              *)
(* A call that can raise yields Return(value) or Raise(exception); an      *)
(* Optional value is None or Some(value).                                  *)
(***************************************************************************)
EXTENDS Integers, Sequences, FiniteSets, TLC

None == {}
Some(v) == {v}
the(opt) == CHOOSE v \in opt : TRUE

ValueError == "ValueError"
Return(v) == [returns |-> v]
Raise(e) == [raises |-> e]
Raised(r) == "raises" \in DOMAIN r

(***************************************************************************)
(* Bounds of the model.                                                    *)
(***************************************************************************)
MaxOctave == 8        \* octaves 0..MaxOctave are given to note_to_number
MaxIndex == 30        \* indices -MaxIndex..MaxIndex are given to number_to_note
MaxSemitones == 13    \* semitone counts -MaxSemitones..MaxSemitones
MaxCalls == 2         \* transpose_key calls in a chain
MaxPitch == 11        \* boundary notes of the ranges are pitches 0..MaxPitch
MaxMargin == 3        \* comfort margins 0..MaxMargin
MaxDistance == 4      \* reported margins -MaxDistance..MaxDistance

(***************************************************************************)
(* Module constants.                                                       *)
(***************************************************************************)
NOTES_EN ==
  << <<"C">>, <<"C","#">>, <<"D">>, <<"D","#">>, <<"E">>, <<"F">>,
     <<"F","#">>, <<"G">>, <<"G","#">>, <<"A">>, <<"A","#">>, <<"B">> >>

NOTES_PT ==
  << <<"D","ó">>, <<"D","ó","#">>, <<"R","é">>, <<"R","é","#">>, <<"M","i">>,
     <<"F","á">>, <<"F","á","#">>, <<"S","o","l">>, <<"S","o","l","#">>,
     <<"L","á">>, <<"L","á","#">>, <<"S","i">> >>

MAJOR_KEYS ==
  << <<"C">>, <<"G">>, <<"D">>, <<"A">>, <<"E">>, <<"B">>, <<"F","#">>,
     <<"C","#">>, <<"F">>, <<"B","b">>, <<"E","b">>, <<"A","b">>,
     <<"D","b">>, <<"G","b">>, <<"C","b">> >>

MINOR_KEYS ==
  << <<"A","m">>, <<"E","m">>, <<"B","m">>, <<"F","#","m">>, <<"C","#","m">>,
     <<"G","#","m">>, <<"D","#","m">>, <<"A","#","m">>, <<"D","m">>,
     <<"G","m">>, <<"C","m">>, <<"F","m">>, <<"B","b","m">>,
     <<"E","b","m">>, <<"A","b","m">> >>

(***************************************************************************)
(* Python built-ins used by the calculator.                                *)
(***************************************************************************)
Range(seq) == { seq[i] : i \in 1..Len(seq) }

\* list.index(x): zero-based position of the first occurrence of x
list_index(list, x) ==
  (CHOOSE i \in 1..Len(list) :
      list[i] = x /\ \A j \in 1..(i - 1) : list[j] # x) - 1

\* dict.get(k, default) on a dict given as a sequence of <<key, value>> pairs
dict_get(dict, k, default) ==
  IF \E i \in 1..Len(dict) : dict[i][1] = k
  THEN dict[CHOOSE i \in 1..Len(dict) : dict[i][1] = k][2]
  ELSE default

LowerChars ==
  <<"a","b","c","d","e","f","g","h","i","l","m","o","r","s","x","á","é","ó">>
UpperChars ==
  <<"A","B","C","D","E","F","G","H","I","L","M","O","R","S","X","Á","É","Ó">>

\* str.upper() on one character
upper_char(c) ==
  IF c \in Range(LowerChars)
  THEN UpperChars[list_index(LowerChars, c) + 1]
  ELSE c

\* str.upper()
str_upper(s) == [i \in 1..Len(s) |-> upper_char(s[i])]

\* str.replace(old, new) for a one-character old and a one-character new
str_replace_char(s, old, new) ==
  [i \in 1..Len(s) |-> IF s[i] = old THEN new ELSE s[i]]

\* str.replace(old, '') for a one-character old
str_remove_char(s, old) == SelectSeq(s, LAMBDA c : c # old)

\* str.endswith(c) for a one-character c
str_endswith(s, c) == Len(s) > 0 /\ s[Len(s)] = c

DigitChars == <<"0","1","2","3","4","5","6","7","8","9">>

RECURSIVE nat_str(_)
nat_str(n) ==
  IF n < 10 THEN <<DigitChars[n + 1]>>
  ELSE nat_str(n \div 10) \o <<DigitChars[(n % 10) + 1]>>

\* str(n) of an int, as the f-string "{n}" formats it
int_str(n) == IF n < 0 THEN <<"-">> \o nat_str(-n) ELSE nat_str(n)

\* round_half rounding an exact half upwards
round_half_up(twice) == (twice + 1) \div 2

\* round(x) of a float x = twice / 2: Python 3 rounds an exact half to the
\* even neighbour
round_half(twice) ==
  IF twice % 2 = 0 THEN twice \div 2
  ELSE LET below == twice \div 2
       IN  IF below % 2 = 0 THEN below ELSE below + 1

(***************************************************************************)
(* Pitch codec.                                                            *)
(***************************************************************************)
pt_to_en ==
  << << <<"D","O">>, <<"C">> >>, << <<"D","Ó">>, <<"C">> >>,
     << <<"C">>, <<"C">> >>,
     << <<"D","O","#">>, <<"C","#">> >>, << <<"D","Ó","#">>, <<"C","#">> >>,
     << <<"C","#">>, <<"C","#">> >>,
     << <<"R","E">>, <<"D">> >>, << <<"R","É">>, <<"D">> >>,
     << <<"D">>, <<"D">> >>,
     << <<"R","E","#">>, <<"D","#">> >>, << <<"R","É","#">>, <<"D","#">> >>,
     << <<"D","#">>, <<"D","#">> >>,
     << <<"M","I">>, <<"E">> >>, << <<"E">>, <<"E">> >>,
     << <<"F","A">>, <<"F">> >>, << <<"F","Á">>, <<"F">> >>,
     << <<"F">>, <<"F">> >>,
     << <<"F","A","#">>, <<"F","#">> >>, << <<"F","Á","#">>, <<"F","#">> >>,
     << <<"F","#">>, <<"F","#">> >>,
     << <<"S","O","L">>, <<"G">> >>, << <<"G">>, <<"G">> >>,
     << <<"S","O","L","#">>, <<"G","#">> >>, << <<"G","#">>, <<"G","#">> >>,
     << <<"L","A">>, <<"A">> >>, << <<"L","Á">>, <<"A">> >>,
     << <<"A">>, <<"A">> >>,
     << <<"L","A","#">>, <<"A","#">> >>, << <<"L","Á","#">>, <<"A","#">> >>,
     << <<"A","#">>, <<"A","#">> >>,
     << <<"S","I">>, <<"B">> >>, << <<"B">>, <<"B">> >> >>

\* note_to_number without the upper(): only upper-case spellings are found
note_to_number_no_upper(note, octave) ==
  LET note_upper == str_replace_char(note, "Ó", "O")
      note_en == dict_get(pt_to_en, note_upper, note_upper)
  IN  IF note_en \notin Range(NOTES_EN)
      THEN Raise(ValueError)
      ELSE Return(octave * 12 + list_index(NOTES_EN, note_en))

note_to_number(note, octave) ==
  LET note_upper == str_replace_char(str_upper(note), "Ó", "O")
      note_en == dict_get(pt_to_en, note_upper, note_upper)
  IN  IF note_en \notin Range(NOTES_EN)
      THEN Raise(ValueError)
      ELSE Return(octave * 12 + list_index(NOTES_EN, note_en))

\* number_to_note returning the name of NOTES_EN instead of NOTES_PT
number_to_note_en(number) ==
  LET octave == number \div 12
      note_index == number % 12
  IN  <<NOTES_EN[note_index + 1], octave>>

\* number_to_note with a division that truncates toward zero
number_to_note_trunc(number) ==
  LET octave == IF number < 0 THEN -((-number) \div 12) ELSE number \div 12
      note_index == number % 12
  IN  <<NOTES_PT[note_index + 1], octave>>

number_to_note(number) ==
  LET octave == number \div 12
      note_index == number % 12
  IN  <<NOTES_PT[note_index + 1], octave>>

(***************************************************************************)
(* Key transposer.                                                         *)
(***************************************************************************)
\* key_mapping without its first entry
key_mapping_without_Bb ==
  << << <<"E","b">>, <<"D","#">> >>,
     << <<"A","b">>, <<"G","#">> >>, << <<"D","b">>, <<"C","#">> >>,
     << <<"G","b">>, <<"F","#">> >> >>

key_mapping ==
  << << <<"B","b">>, <<"A","#">> >>, << <<"E","b">>, <<"D","#">> >>,
     << <<"A","b">>, <<"G","#">> >>, << <<"D","b">>, <<"C","#">> >>,
     << <<"G","b">>, <<"F","#">> >> >>

\* common_keys with A# respelled Ab instead of Bb
common_keys_typo ==
  << << <<"A","#">>, <<"A","b">> >>, << <<"C","#">>, <<"D","b">> >>,
     << <<"D","#">>, <<"E","b">> >>, << <<"F","#">>, <<"G","b">> >>,
     << <<"G","#">>, <<"A","b">> >> >>

\* common_keys without a flat spelling for D#
common_keys_without_Eb ==
  << << <<"A","#">>, <<"B","b">> >>, << <<"C","#">>, <<"D","b">> >>,
     << <<"F","#">>, <<"G","b">> >>, << <<"G","#">>, <<"A","b">> >> >>

common_keys ==
  << << <<"A","#">>, <<"B","b">> >>, << <<"C","#">>, <<"D","b">> >>,
     << <<"D","#">>, <<"E","b">> >>, << <<"F","#">>, <<"G","b">> >>,
     << <<"G","#">>, <<"A","b">> >> >>

dict_keys(dict) == { dict[i][1] : i \in 1..Len(dict) }

\* transpose_key respelling with flats in minor keys too
transpose_key_flat_minor(original_key, semitones) ==
  LET is_minor == str_endswith(original_key, "m")
      stripped == IF is_minor THEN str_remove_char(original_key, "m")
                  ELSE original_key
      base_key == IF stripped \notin Range(NOTES_EN)
                  THEN dict_get(key_mapping, stripped, stripped)
                  ELSE stripped
  IN  IF base_key \in Range(NOTES_EN)
      THEN LET key_index == list_index(NOTES_EN, base_key)
               new_index == (key_index + semitones) % 12
               sharp_key == NOTES_EN[new_index + 1]
               new_key == IF sharp_key \in dict_keys(common_keys)
                          THEN dict_get(common_keys, sharp_key, sharp_key)
                          ELSE sharp_key
           IN  new_key \o (IF is_minor THEN <<"m">> ELSE <<>>)
      ELSE original_key

\* transpose_key keeping the sharp spelling in major keys too
transpose_key_sharp_major(original_key, semitones) ==
  LET is_minor == str_endswith(original_key, "m")
      stripped == IF is_minor THEN str_remove_char(original_key, "m")
                  ELSE original_key
      base_key == IF stripped \notin Range(NOTES_EN)
                  THEN dict_get(key_mapping, stripped, stripped)
                  ELSE stripped
  IN  IF base_key \in Range(NOTES_EN)
      THEN LET key_index == list_index(NOTES_EN, base_key)
               new_index == (key_index + semitones) % 12
               sharp_key == NOTES_EN[new_index + 1]
               new_key == IF FALSE
                          THEN dict_get(common_keys, sharp_key, sharp_key)
                          ELSE sharp_key
           IN  new_key \o (IF is_minor THEN <<"m">> ELSE <<>>)
      ELSE original_key

\* transpose_key taking the remainder of the absolute value of the index
transpose_key_abs_index(original_key, semitones) ==
  LET is_minor == str_endswith(original_key, "m")
      stripped == IF is_minor THEN str_remove_char(original_key, "m")
                  ELSE original_key
      base_key == IF stripped \notin Range(NOTES_EN)
                  THEN dict_get(key_mapping, stripped, stripped)
                  ELSE stripped
  IN  IF base_key \in Range(NOTES_EN)
      THEN LET key_index == list_index(NOTES_EN, base_key)
               sum == key_index + semitones
               new_index == (IF sum < 0 THEN -sum ELSE sum) % 12
               sharp_key == NOTES_EN[new_index + 1]
               new_key == IF ~is_minor /\ sharp_key \in dict_keys(common_keys)
                          THEN dict_get(common_keys, sharp_key, sharp_key)
                          ELSE sharp_key
           IN  new_key \o (IF is_minor THEN <<"m">> ELSE <<>>)
      ELSE original_key

transpose_key(original_key, semitones) ==
  LET is_minor == str_endswith(original_key, "m")
      stripped == IF is_minor THEN str_remove_char(original_key, "m")
                  ELSE original_key
      base_key == IF stripped \notin Range(NOTES_EN)
                  THEN dict_get(key_mapping, stripped, stripped)
                  ELSE stripped
  IN  IF base_key \in Range(NOTES_EN)
      THEN LET key_index == list_index(NOTES_EN, base_key)
               new_index == (key_index + semitones) % 12
               sharp_key == NOTES_EN[new_index + 1]
               new_key == IF ~is_minor /\ sharp_key \in dict_keys(common_keys)
                          THEN dict_get(common_keys, sharp_key, sharp_key)
                          ELSE sharp_key
           IN  new_key \o (IF is_minor THEN <<"m">> ELSE <<>>)
      ELSE original_key

(***************************************************************************)
(* Range model.                                                            *)
(***************************************************************************)
\* define_vocal_range counting both boundary notes in the range
define_vocal_range_inclusive(lowest_note, lowest_octave, highest_note, highest_octave) ==
  LET lowest_num == note_to_number(lowest_note, lowest_octave)
      highest_num == note_to_number(highest_note, highest_octave)
  IN  IF Raised(lowest_num) THEN lowest_num
      ELSE IF Raised(highest_num) THEN highest_num
      ELSE Return(
           [lowest |-> lowest_num.returns,
            highest |-> highest_num.returns,
            range |-> highest_num.returns - lowest_num.returns + 1,
            lowest_note |-> lowest_note \o int_str(lowest_octave),
            highest_note |-> highest_note \o int_str(highest_octave)])

define_vocal_range(lowest_note, lowest_octave, highest_note, highest_octave) ==
  LET lowest_num == note_to_number(lowest_note, lowest_octave)
      highest_num == note_to_number(highest_note, highest_octave)
  IN  IF Raised(lowest_num) THEN lowest_num
      ELSE IF Raised(highest_num) THEN highest_num
      ELSE Return(
           [lowest |-> lowest_num.returns,
            highest |-> highest_num.returns,
            range |-> highest_num.returns - lowest_num.returns,
            lowest_note |-> lowest_note \o int_str(lowest_octave),
            highest_note |-> highest_note \o int_str(highest_octave)])

\* define_song_range putting the two boundaries in order
define_song_range_ordered(lowest_note, lowest_octave, highest_note, highest_octave, original_key) ==
  LET lowest_num == note_to_number(lowest_note, lowest_octave)
      highest_num == note_to_number(highest_note, highest_octave)
  IN  IF Raised(lowest_num) THEN lowest_num
      ELSE IF Raised(highest_num) THEN highest_num
      ELSE IF lowest_num.returns > highest_num.returns
      THEN Return(
           [lowest |-> highest_num.returns,
            highest |-> lowest_num.returns,
            range |-> lowest_num.returns - highest_num.returns,
            lowest_note |-> highest_note \o int_str(highest_octave),
            highest_note |-> lowest_note \o int_str(lowest_octave),
            original_key |-> original_key])
      ELSE Return(
           [lowest |-> lowest_num.returns,
            highest |-> highest_num.returns,
            range |-> highest_num.returns - lowest_num.returns,
            lowest_note |-> lowest_note \o int_str(lowest_octave),
            highest_note |-> highest_note \o int_str(highest_octave),
            original_key |-> original_key])

define_song_range(lowest_note, lowest_octave, highest_note, highest_octave, original_key) ==
  LET lowest_num == note_to_number(lowest_note, lowest_octave)
      highest_num == note_to_number(highest_note, highest_octave)
  IN  IF Raised(lowest_num) THEN lowest_num
      ELSE IF Raised(highest_num) THEN highest_num
      ELSE Return(
           [lowest |-> lowest_num.returns,
            highest |-> highest_num.returns,
            range |-> highest_num.returns - lowest_num.returns,
            lowest_note |-> lowest_note \o int_str(lowest_octave),
            highest_note |-> highest_note \o int_str(highest_octave),
            original_key |-> original_key])

\* check_compatibility with a strict comparison
check_compatibility_strict(vocal_range, song_range) ==
  song_range.range < vocal_range.range

check_compatibility(vocal_range, song_range) ==
  song_range.range <= vocal_range.range

(***************************************************************************)
(* Transposition solver.                                                   *)
(***************************************************************************)
MsgTooWide == "A extensão da música é maior que a extensão vocal do cantor"
MsgSuccess == "Transposição calculada com sucesso"

\* truth value of song_range.get('original_key')
key_given(song_range) ==
  song_range.original_key # None /\ song_range.original_key # Some(<<>>)

\* round(vocal_center - song_center); the centres are halves of integers
center_shift(vocal_range, song_range) ==
  round_half((vocal_range.lowest + vocal_range.highest)
             - (song_range.lowest + song_range.highest))

\* calculate_transposition keeping twice the margin clear at the top
calculate_transposition_double_margin(vocal_range, song_range, comfort_margin) ==
  IF ~check_compatibility(vocal_range, song_range)
  THEN <<None, MsgTooWide, None>>
  ELSE
    LET center_transpose == center_shift(vocal_range, song_range)
        transposed_lowest == song_range.lowest + center_transpose
        transposed_highest == song_range.highest + center_transpose
        raised ==
          IF transposed_lowest < vocal_range.lowest + comfort_margin
          THEN center_transpose
               + (vocal_range.lowest + comfort_margin - transposed_lowest)
          ELSE center_transpose
        lowered ==
          IF transposed_highest > vocal_range.highest - 2 * comfort_margin
          THEN raised
               - (transposed_highest
                  - (vocal_range.highest - 2 * comfort_margin))
          ELSE raised
        new_key == IF key_given(song_range)
                   THEN Some(transpose_key(the(song_range.original_key),
                                           lowered))
                   ELSE None
    IN  <<Some(lowered), MsgSuccess, new_key>>


\* calculate_transposition without the compatibility test
calculate_transposition_unchecked(vocal_range, song_range, comfort_margin) ==
  LET center_transpose == center_shift(vocal_range, song_range)
      transposed_lowest == song_range.lowest + center_transpose
      transposed_highest == song_range.highest + center_transpose
      raised ==
        IF transposed_lowest < vocal_range.lowest + comfort_margin
        THEN center_transpose
             + (vocal_range.lowest + comfort_margin - transposed_lowest)
        ELSE center_transpose
      lowered ==
        IF transposed_highest > vocal_range.highest - comfort_margin
        THEN raised
             - (transposed_highest - (vocal_range.highest - comfort_margin))
        ELSE raised
      new_key == IF key_given(song_range)
                 THEN Some(transpose_key(the(song_range.original_key),
                                         lowered))
                 ELSE None
  IN  <<Some(lowered), MsgSuccess, new_key>>

\* calculate_transposition recomputing the high boundary after the
\* low-margin fix
calculate_transposition_recomputed(vocal_range, song_range, comfort_margin) ==
  IF ~check_compatibility(vocal_range, song_range)
  THEN <<None, MsgTooWide, None>>
  ELSE
    LET center_transpose == center_shift(vocal_range, song_range)
        transposed_lowest == song_range.lowest + center_transpose
        raised ==
          IF transposed_lowest < vocal_range.lowest + comfort_margin
          THEN center_transpose
               + (vocal_range.lowest + comfort_margin - transposed_lowest)
          ELSE center_transpose
        transposed_highest == song_range.highest + raised
        lowered ==
          IF transposed_highest > vocal_range.highest - comfort_margin
          THEN raised
               - (transposed_highest - (vocal_range.highest - comfort_margin))
          ELSE raised
        new_key == IF key_given(song_range)
                   THEN Some(transpose_key(the(song_range.original_key),
                                           lowered))
                   ELSE None
    IN  <<Some(lowered), MsgSuccess, new_key>>

calculate_transposition(vocal_range, song_range, comfort_margin) ==
  IF ~check_compatibility(vocal_range, song_range)
  THEN <<None, MsgTooWide, None>>
  ELSE
    LET center_transpose == center_shift(vocal_range, song_range)
        transposed_lowest == song_range.lowest + center_transpose
        transposed_highest == song_range.highest + center_transpose
        raised ==
          IF transposed_lowest < vocal_range.lowest + comfort_margin
          THEN center_transpose
               + (vocal_range.lowest + comfort_margin - transposed_lowest)
          ELSE center_transpose
        lowered ==
          IF transposed_highest > vocal_range.highest - comfort_margin
          THEN raised
               - (transposed_highest - (vocal_range.highest - comfort_margin))
          ELSE raised
        new_key == IF key_given(song_range)
                   THEN Some(transpose_key(the(song_range.original_key),
                                           lowered))
                   ELSE None
    IN  <<Some(lowered), MsgSuccess, new_key>>


\* one entry of valid_transpositions
transposition_entry(original_key, vocal_range, song_range, transpose) ==
  LET transposed_lowest == song_range.lowest + transpose
      transposed_highest == song_range.highest + transpose
  IN  [transposition |-> transpose,
       new_key |-> transpose_key(original_key, transpose),
       margin_low |-> transposed_lowest - vocal_range.lowest,
       margin_high |-> vocal_range.highest - transposed_highest]

\* within_margin testing the low end only
within_margin_low_only(vocal_range, song_range, comfort_margin, transpose) ==
  song_range.lowest + transpose >= vocal_range.lowest + comfort_margin

\* within_margin asking for more than the margin at the low end
within_margin_strict(vocal_range, song_range, comfort_margin, transpose) ==
  /\ song_range.lowest + transpose > vocal_range.lowest + comfort_margin
  /\ song_range.highest + transpose <= vocal_range.highest - comfort_margin

\* the test of the loop body: the transposed song lies within the voice
\* with the margin
within_margin(vocal_range, song_range, comfort_margin, transpose) ==
  /\ song_range.lowest + transpose >= vocal_range.lowest + comfort_margin
  /\ song_range.highest + transpose <= vocal_range.highest - comfort_margin

\* valid_transpositions with the loop over range(-5, 7)
valid_transpositions_from_minus_5(original_key, vocal_range, song_range, comfort_margin) ==
  LET center_transpose == center_shift(vocal_range, song_range)
      tried == [i \in 1..12 |-> center_transpose + (i - 6)]
      valid == SelectSeq(tried,
                 LAMBDA t : within_margin(vocal_range, song_range,
                                          comfort_margin, t))
  IN  [i \in 1..Len(valid) |->
         transposition_entry(original_key, vocal_range, song_range, valid[i])]

\* valid_transpositions when the loop over range(-6, 7) has ended
valid_transpositions(original_key, vocal_range, song_range, comfort_margin) ==
  LET center_transpose == center_shift(vocal_range, song_range)
      tried == [i \in 1..13 |-> center_transpose + (i - 7)]
      valid == SelectSeq(tried,
                 LAMBDA t : within_margin(vocal_range, song_range,
                                          comfort_margin, t))
  IN  [i \in 1..Len(valid) |->
         transposition_entry(original_key, vocal_range, song_range, valid[i])]

total_margin(entry) == entry.margin_low + entry.margin_high

\* insert_desc putting e in front of the entries of equal key
insert_desc_before_equal(sorted, e) ==
  LET k == Cardinality({ i \in 1..Len(sorted) :
                           total_margin(sorted[i]) > total_margin(e) })
  IN  SubSeq(sorted, 1, k) \o <<e>> \o SubSeq(sorted, k + 1, Len(sorted))

\* one step of list.sort(key=total_margin, reverse=True): the sort is
\* stable, so e goes behind every entry whose key is not smaller
insert_desc(sorted, e) ==
  LET k == Cardinality({ i \in 1..Len(sorted) :
                           total_margin(sorted[i]) >= total_margin(e) })
  IN  SubSeq(sorted, 1, k) \o <<e>> \o SubSeq(sorted, k + 1, Len(sorted))

RECURSIVE sort_desc(_)
sort_desc(list) ==
  IF list = <<>> THEN <<>>
  ELSE insert_desc(sort_desc(SubSeq(list, 1, Len(list) - 1)), list[Len(list)])

\* list[:n]
list_head(list, n) == SubSeq(list, 1, IF Len(list) < n THEN Len(list) ELSE n)

calculate_transpositions(original_key, vocal_range, song_range, comfort_margin) ==
  IF ~check_compatibility(vocal_range, song_range)
  THEN <<>>
  ELSE list_head(sort_desc(valid_transpositions(original_key, vocal_range,
                                                song_range, comfort_margin)),
                 3)

(***************************************************************************)
(* Names of the keys in Portuguese.                                        *)
(***************************************************************************)
keys_pt ==
  << << <<"C">>, <<"D","ó"," ","M","a","i","o","r">> >>,
     << <<"G">>, <<"S","o","l"," ","M","a","i","o","r">> >>,
     << <<"D">>, <<"R","é"," ","M","a","i","o","r">> >>,
     << <<"A">>, <<"L","á"," ","M","a","i","o","r">> >>,
     << <<"E">>, <<"M","i"," ","M","a","i","o","r">> >>,
     << <<"B">>, <<"S","i"," ","M","a","i","o","r">> >>,
     << <<"F","#">>, <<"F","á","#"," ","M","a","i","o","r">> >>,
     << <<"C","#">>, <<"D","ó","#"," ","M","a","i","o","r">> >>,
     << <<"F">>, <<"F","á"," ","M","a","i","o","r">> >>,
     << <<"B","b">>, <<"S","i","b"," ","M","a","i","o","r">> >>,
     << <<"E","b">>, <<"M","i","b"," ","M","a","i","o","r">> >>,
     << <<"A","b">>, <<"L","á","b"," ","M","a","i","o","r">> >>,
     << <<"D","b">>, <<"R","é","b"," ","M","a","i","o","r">> >>,
     << <<"G","b">>, <<"S","o","l","b"," ","M","a","i","o","r">> >>,
     << <<"C","b">>, <<"D","ó","b"," ","M","a","i","o","r">> >>,
     << <<"A","m">>, <<"L","á"," ","m","e","n","o","r">> >>,
     << <<"E","m">>, <<"M","i"," ","m","e","n","o","r">> >>,
     << <<"B","m">>, <<"S","i"," ","m","e","n","o","r">> >>,
     << <<"F","#","m">>, <<"F","á","#"," ","m","e","n","o","r">> >>,
     << <<"C","#","m">>, <<"D","ó","#"," ","m","e","n","o","r">> >>,
     << <<"G","#","m">>, <<"S","o","l","#"," ","m","e","n","o","r">> >>,
     << <<"D","#","m">>, <<"R","é","#"," ","m","e","n","o","r">> >>,
     << <<"A","#","m">>, <<"L","á","#"," ","m","e","n","o","r">> >>,
     << <<"D","m">>, <<"R","é"," ","m","e","n","o","r">> >>,
     << <<"G","m">>, <<"S","o","l"," ","m","e","n","o","r">> >>,
     << <<"C","m">>, <<"D","ó"," ","m","e","n","o","r">> >>,
     << <<"F","m">>, <<"F","á"," ","m","e","n","o","r">> >>,
     << <<"B","b","m">>, <<"S","i","b"," ","m","e","n","o","r">> >>,
     << <<"E","b","m">>, <<"M","i","b"," ","m","e","n","o","r">> >>,
     << <<"A","b","m">>, <<"L","á","b"," ","m","e","n","o","r">> >> >>

\* get_key_name_pt without the entries of the flat minor keys
get_key_name_pt_sharp_minors(key) ==
  dict_get(SubSeq(keys_pt, 1, 27), key, key)

get_key_name_pt(key) == dict_get(keys_pt, key, key)

(***************************************************************************)
(* Assessment of the margins by the front ends.                            *)
(***************************************************************************)
\* the two branches on the margins, as display_results takes them
margin_card(margin_low, margin_high) ==
  IF margin_low >= 2 /\ margin_high >= 2 THEN "Margens Adequadas"
  ELSE IF margin_low >= 1 /\ margin_high >= 1 THEN "Margens Justas"
  ELSE "Margens Insuficientes"

\* margin_report taking one sufficient margin for a tight fit
margin_report_either(margin_low, margin_high) ==
  IF margin_low >= 2 /\ margin_high >= 2
  THEN "Margens adequadas para execução confortável"
  ELSE IF margin_low >= 1 \/ margin_high >= 1
  THEN "Margens justas - cantar com cuidado"
  ELSE "Margens insuficientes - pode ser desconfortável"

\* the same branches as analyze_singer_song takes them
margin_report(margin_low, margin_high) ==
  IF margin_low >= 2 /\ margin_high >= 2
  THEN "Margens adequadas para execução confortável"
  ELSE IF margin_low >= 1 /\ margin_high >= 1
  THEN "Margens justas - cantar com cuidado"
  ELSE "Margens insuficientes - pode ser desconfortável"

(***************************************************************************)
(* Inputs given to the calculator.                                         *)
(***************************************************************************)
lower_char(c) ==
  IF c \in Range(UpperChars)
  THEN LowerChars[list_index(UpperChars, c) + 1]
  ELSE c

\* every spelling of k in any letter case
RECURSIVE CaseVariants(_)
CaseVariants(k) ==
  IF k = <<>> THEN {<<>>}
  ELSE { <<c>> \o rest : c \in {k[1], lower_char(k[1])},
                          rest \in CaseVariants(Tail(k)) }

AliasNotes == UNION { CaseVariants(k) : k \in dict_keys(pt_to_en) }

\* strings that are no spelling of an alias
GarbageNotes ==
  { <<"H">>, <<>>, <<"B","b">>, <<"C","b">>, <<"E","#">>, <<"B","#">>,
    <<"X">>, <<"Ó">>, <<"S","O">>, <<"D","O","L">>, <<"C","#","#">>,
    <<" ","C">>, <<"C"," ">>, <<"#">>, <<"S","i","b">>, <<"R","é","b">>,
    <<"Á">>, <<"M","i","#">>, <<"D","ó","m">> }

NoteInputs == AliasNotes \cup GarbageNotes

\* keys that are not in MAJOR_KEYS or MINOR_KEYS
OtherKeys ==
  { <<"D","#">>, <<"G","#">>, <<"A","#">>, <<"D","b","m">>, <<"G","b","m">>,
    <<"C","b","m">>, <<"H">>, <<"E","#">>, <<"F","b">>, <<>>, <<"m">>,
    <<"c">>, <<"a","m">>, <<"C","m","m">>, <<"m","C">>, <<"D","ó">> }

ListedKeys == Range(MAJOR_KEYS) \cup Range(MINOR_KEYS)

KeyInputs == ListedKeys \cup OtherKeys

(***************************************************************************)
(* State.                                                                  *)
(***************************************************************************)
VARIABLES
  pc,              \* position in the analysis of main()
  vocal_range,     \* what define_vocal_range gave
  song_range,      \* what define_song_range gave
  comfort_margin,  \* the margin given to the solver
  transposition,   \* what calculate_transposition returned
  vocal_in,        \* the arguments given to define_vocal_range
  song_in,         \* the arguments given to define_song_range
  compatible,      \* what check_compatibility returned
  candidates,      \* what calculate_transpositions returned
  note_arg,        \* codec: the (note, octave) given to note_to_number
  number,          \* codec: the pitch index being converted
  note_ret,        \* codec: what number_to_note returned for number
  number_back,     \* codec: note_to_number of note_ret
  key_arg,         \* transposer: the key the chain of calls started from
  key_calls,       \* transposer: the number of transpose_key calls so far
  semitones_total, \* transposer: the sum of their semitone counts
  key_ret,         \* transposer: what the last transpose_key returned
  name_arg,        \* the key given to get_key_name_pt
  key_name,        \* what get_key_name_pt returned
  margins,         \* the (margin_low, margin_high) a front end reports
  card,            \* the heading of the card display_results shows
  report           \* the line analyze_singer_song prints

solver_vars ==
  <<pc, vocal_range, song_range, comfort_margin, transposition,
    vocal_in, song_in, compatible, candidates>>
codec_vars == <<note_arg, number, note_ret, number_back>>
key_vars == <<key_arg, key_calls, semitones_total, key_ret, name_arg, key_name>>
band_vars == <<margins, card, report>>
vars == <<solver_vars, codec_vars, key_vars, band_vars>>

SolverIdle ==
  /\ pc = "inputs"
  /\ vocal_range = None
  /\ song_range = None
  /\ comfort_margin = None
  /\ transposition = None
  /\ vocal_in = None
  /\ song_in = None
  /\ compatible = None
  /\ candidates = None

CodecIdle ==
  /\ note_arg = None
  /\ number = None
  /\ note_ret = None
  /\ number_back = None

KeyIdle ==
  /\ key_arg = None
  /\ key_calls = 0
  /\ semitones_total = 0
  /\ key_ret = None
  /\ name_arg = None
  /\ key_name = None

BandIdle ==
  /\ margins = None
  /\ card = None
  /\ report = None

(***************************************************************************)
(* Pitch codec calls.                                                      *)
(***************************************************************************)
\* number = note_to_number(note, octave)
NoteToNumber(note, octave) ==
  /\ note_arg = None /\ number = None
  /\ note_arg' = Some(<<note, octave>>)
  /\ number' = Some(note_to_number(note, octave))
  /\ UNCHANGED <<note_ret, number_back, solver_vars, key_vars, band_vars>>

\* note, octave = number_to_note(number) for a number that was returned by
\* note_to_number or is given by the caller
NumberToNote(n) ==
  /\ note_ret = None
  /\ \/ number = Some(Return(n))
     \/ number = None /\ n \in -MaxIndex..MaxIndex
  /\ number' = Some(Return(n))
  /\ note_ret' = Some(number_to_note(n))
  /\ UNCHANGED <<note_arg, number_back, solver_vars, key_vars, band_vars>>

\* note_to_number(*number_to_note(number))
NoteToNumberBack ==
  /\ note_ret # None /\ number_back = None
  /\ number_back' = Some(note_to_number(the(note_ret)[1], the(note_ret)[2]))
  /\ UNCHANGED <<note_arg, number, note_ret, solver_vars, key_vars, band_vars>>

CodecInit == SolverIdle /\ CodecIdle /\ KeyIdle /\ BandIdle

CodecNext ==
  \/ \E note \in NoteInputs, octave \in 0..MaxOctave :
       NoteToNumber(note, octave)
  \/ \E n \in -MaxIndex..(MaxOctave * 12 + 11) : NumberToNote(n)
  \/ NoteToNumberBack

SpecCodec == CodecInit /\ [][CodecNext]_vars

(***************************************************************************)
(* Key transposer calls.                                                   *)
(***************************************************************************)
\* key_ret = transpose_key(key, semitones) for a key given by the caller
TransposeKey(key, semitones) ==
  /\ key_arg = None
  /\ name_arg = None
  /\ key_arg' = Some(key)
  /\ key_calls' = 1
  /\ semitones_total' = semitones
  /\ key_ret' = Some(transpose_key(key, semitones))
  /\ UNCHANGED <<name_arg, key_name, solver_vars, codec_vars, band_vars>>

\* key_ret = transpose_key(key_ret, semitones): the key a call returned is
\* transposed again
TransposeKeyAgain(semitones) ==
  /\ key_ret # None
  /\ name_arg = None
  /\ key_calls < MaxCalls
  /\ key_calls' = key_calls + 1
  /\ semitones_total' = semitones_total + semitones
  /\ key_ret' = Some(transpose_key(the(key_ret), semitones))
  /\ UNCHANGED <<key_arg, name_arg, key_name, solver_vars, codec_vars,
                 band_vars>>

\* calc.get_key_name_pt(original_key): the key as the caller gave it
GetKeyNamePt(key) ==
  /\ key_arg = None
  /\ name_arg = None
  /\ name_arg' = Some(key)
  /\ key_name' = Some(get_key_name_pt(key))
  /\ UNCHANGED <<key_arg, key_calls, semitones_total, key_ret, solver_vars,
                 codec_vars, band_vars>>

\* calc.get_key_name_pt(new_key): the key transpose_key returned
GetNewKeyNamePt ==
  /\ key_ret # None
  /\ name_arg = None
  /\ name_arg' = key_ret
  /\ key_name' = Some(get_key_name_pt(the(key_ret)))
  /\ UNCHANGED <<key_arg, key_calls, semitones_total, key_ret, solver_vars,
                 codec_vars, band_vars>>

KeyInit == SolverIdle /\ CodecIdle /\ KeyIdle /\ BandIdle

KeyNext ==
  \/ \E semitones \in -MaxSemitones..MaxSemitones :
       \/ \E key \in KeyInputs : TransposeKey(key, semitones)
       \/ TransposeKeyAgain(semitones)
  \/ \E key \in KeyInputs : GetKeyNamePt(key)
  \/ GetNewKeyNamePt

SpecKey == KeyInit /\ [][KeyNext]_vars


(***************************************************************************)
(* The analysis of main(): define the two ranges, then solve.              *)
(***************************************************************************)
\* the boundary notes the caller picks, as (name, octave)
RangeNotes == { number_to_note(p) : p \in 0..MaxPitch }

\* the example of app.py: a voice from Dó2 to Sol4, songs from Fá3 to Ré5
\* in C and from Ré3 to Si4 in Am
ExampleVocal == << <<"D","ó">>, 2, <<"S","o","l">>, 4 >>
ExampleSongs ==
  { << <<"F","á">>, 3, <<"R","é">>, 5, Some(<<"C">>) >>,
    << <<"R","é">>, 3, <<"S","i">>, 4, Some(<<"A","m">>) >> }

SongKeys == { None, Some(<<"C">>), Some(<<"A","m">>) }

\* names as a caller of the calculator may type them: any case, letters or
\* solfege
TypedVocal == << <<"d","ó">>, 1, <<"g">>, 0 >>
TypedSongs ==
  { << <<"l","á","#">>, 0, <<"c">>, 0, Some(<<"A","m">>) >>,
    << <<"c">>, 0, <<"S","O","L">>, 0, None >> }

VocalInputs ==
  { <<lo[1], lo[2], hi[1], hi[2]>> : lo \in RangeNotes, hi \in RangeNotes }
  \cup { ExampleVocal, TypedVocal, << <<"H">>, 0, <<"D","ó">>, 1 >> }

SongInputs ==
  { <<lo[1], lo[2], hi[1], hi[2], key>> :
      lo \in RangeNotes, hi \in RangeNotes, key \in SongKeys }
  \cup ExampleSongs
  \cup TypedSongs
  \cup { << <<"D","ó">>, 0, <<"H">>, 1, None >> }

\* vocal_range = calc.define_vocal_range(...); a ValueError ends the analysis
DefineVocalRange(in) ==
  /\ pc = "inputs"
  /\ vocal_in' = Some(in)
  /\ LET r == define_vocal_range(in[1], in[2], in[3], in[4])
     IN  IF Raised(r)
         THEN pc' = "error" /\ UNCHANGED vocal_range
         ELSE pc' = "vocal_defined" /\ vocal_range' = Some(r.returns)
  /\ UNCHANGED <<song_range, comfort_margin, transposition, song_in,
                 compatible, candidates, codec_vars, key_vars,
                 band_vars>>

\* song_range = calc.define_song_range(...)
DefineSongRange(in) ==
  /\ pc = "vocal_defined"
  /\ song_in' = Some(in)
  /\ LET r == define_song_range(in[1], in[2], in[3], in[4], in[5])
     IN  IF Raised(r)
         THEN pc' = "error" /\ UNCHANGED song_range
         ELSE pc' = "song_defined" /\ song_range' = Some(r.returns)
  /\ UNCHANGED <<vocal_range, comfort_margin, transposition, vocal_in,
                 compatible, candidates, codec_vars, key_vars,
                 band_vars>>

\* transpose, message, new_key = calc.calculate_transposition(...)
CalculateTransposition(margin) ==
  /\ pc = "song_defined"
  /\ pc' = "calculated"
  /\ comfort_margin' = Some(margin)
  /\ transposition' =
       Some(calculate_transposition(the(vocal_range), the(song_range), margin))
  /\ UNCHANGED <<vocal_range, song_range, vocal_in, song_in, compatible,
                 candidates, codec_vars, key_vars,
                 band_vars>>

\* compatible = calc.check_compatibility(vocal_range, song_range)
CheckCompatibility ==
  /\ pc = "song_defined"
  /\ pc' = "checked"
  /\ compatible' =
       Some(check_compatibility(the(vocal_range), the(song_range)))
  /\ UNCHANGED <<vocal_range, song_range, comfort_margin, transposition,
                 vocal_in, song_in, candidates, codec_vars, key_vars,
                 band_vars>>

\* calc.calculate_transpositions(original_key, vocal_range, song_range,
\* margin) with the key of the song, which main() has as a str
CalculateTranspositions(margin) ==
  /\ pc = "song_defined"
  /\ the(song_range).original_key # None
  /\ pc' = "enumerated"
  /\ comfort_margin' = Some(margin)
  /\ candidates' =
       Some(calculate_transpositions(the(the(song_range).original_key),
                                     the(vocal_range), the(song_range),
                                     margin))
  /\ UNCHANGED <<vocal_range, song_range, transposition, vocal_in, song_in,
                 compatible, codec_vars, key_vars,
                 band_vars>>

Init == SolverIdle /\ CodecIdle /\ KeyIdle /\ BandIdle

Next ==
  \/ \E in \in VocalInputs : DefineVocalRange(in)
  \/ \E in \in SongInputs : DefineSongRange(in)
  \/ \E margin \in 0..MaxMargin : CalculateTransposition(margin)
  \/ CheckCompatibility
  \/ \E margin \in 0..MaxMargin : CalculateTranspositions(margin)

Spec == Init /\ [][Next]_vars

(***************************************************************************)
(* The two front ends report the margins a shift leaves.                   *)
(***************************************************************************)
\* the card of display_results
DisplayResults ==
  /\ margins # None
  /\ card = None
  /\ card' = Some(margin_card(the(margins)[1], the(margins)[2]))
  /\ UNCHANGED <<margins, report, solver_vars, codec_vars, key_vars>>

\* the line of analyze_singer_song
AnalyzeSingerSong ==
  /\ margins # None
  /\ report = None
  /\ report' = Some(margin_report(the(margins)[1], the(margins)[2]))
  /\ UNCHANGED <<margins, card, solver_vars, codec_vars, key_vars>>

\* margin_low and margin_high are differences of pitch indices
BandInit ==
  /\ SolverIdle /\ CodecIdle /\ KeyIdle
  /\ card = None
  /\ report = None
  /\ margins \in { Some(<<margin_low, margin_high>>) :
                     margin_low \in -MaxDistance..MaxDistance,
                     margin_high \in -MaxDistance..MaxDistance }

BandNext == DisplayResults \/ AnalyzeSingerSong

SpecBand == BandInit /\ [][BandNext]_vars

(***************************************************************************)
(* Several callers use one calculator: one pair of ranges is passed to     *)
(* check_compatibility and to the two solvers in any order, while other    *)
(* callers convert notes and transpose keys.                               *)
(***************************************************************************)
SharedVocals == { ExampleVocal, TypedVocal }
SharedSongs == ExampleSongs \cup TypedSongs
SharedMargins == { 0, 2 }
SharedKeys == { <<"C">>, <<"A","m">> }
SharedSemitones == { 2, -3 }
SharedNotes == { << <<"d","ó">>, 2 >>, << <<"S","i">>, 3 >> }
SharedNumbers == { note_to_number(n[1], n[2]).returns : n \in SharedNotes }

\* the margin a call passes: the callers of one analysis pass the same one
SameMargin(margin) == comfort_margin \in { None, Some(margin) }

\* check_compatibility(vocal_range, song_range) on the shared ranges
CallCheckCompatibility ==
  /\ pc = "song_defined"
  /\ compatible = None
  /\ compatible' =
       Some(check_compatibility(the(vocal_range), the(song_range)))
  /\ UNCHANGED <<pc, vocal_range, song_range, comfort_margin, transposition,
                 vocal_in, song_in, candidates, codec_vars, key_vars,
                 band_vars>>

\* calculate_transposition writing the transposed boundaries into the
\* song_range it was passed
CallCalculateTransposition_in_place(margin) ==
  /\ pc = "song_defined"
  /\ transposition = None
  /\ SameMargin(margin)
  /\ comfort_margin' = Some(margin)
  /\ LET r == calculate_transposition(the(vocal_range), the(song_range),
                                      margin)
     IN  /\ transposition' = Some(r)
         /\ song_range' =
              IF r[1] = None THEN song_range
              ELSE Some([the(song_range) EXCEPT
                           !.lowest = @ + the(r[1]),
                           !.highest = @ + the(r[1])])
  /\ UNCHANGED <<pc, vocal_range, vocal_in, song_in, compatible,
                 candidates, codec_vars, key_vars, band_vars>>

\* calculate_transposition(vocal_range, song_range, margin) on the shared
\* ranges
CallCalculateTransposition(margin) ==
  /\ pc = "song_defined"
  /\ transposition = None
  /\ SameMargin(margin)
  /\ comfort_margin' = Some(margin)
  /\ transposition' =
       Some(calculate_transposition(the(vocal_range), the(song_range), margin))
  /\ UNCHANGED <<pc, vocal_range, song_range, vocal_in, song_in, compatible,
                 candidates, codec_vars, key_vars, band_vars>>

\* calculate_transpositions(original_key, vocal_range, song_range, margin)
\* on the shared ranges
CallCalculateTranspositions(margin) ==
  /\ pc = "song_defined"
  /\ candidates = None
  /\ SameMargin(margin)
  /\ the(song_range).original_key # None
  /\ comfort_margin' = Some(margin)
  /\ candidates' =
       Some(calculate_transpositions(the(the(song_range).original_key),
                                     the(vocal_range), the(song_range),
                                     margin))
  /\ UNCHANGED <<pc, vocal_range, song_range, transposition, vocal_in,
                 song_in, compatible, codec_vars, key_vars, band_vars>>

SharedNext ==
  \/ \E in \in SharedVocals : DefineVocalRange(in)
  \/ \E in \in SharedSongs : DefineSongRange(in)
  \/ CallCheckCompatibility
  \/ \E margin \in SharedMargins : CallCalculateTransposition(margin)
  \/ \E margin \in SharedMargins : CallCalculateTranspositions(margin)
  \/ \E key \in SharedKeys, semitones \in SharedSemitones :
       TransposeKey(key, semitones)
  \/ \E semitones \in SharedSemitones : TransposeKeyAgain(semitones)
  \/ \E n \in SharedNotes : NoteToNumber(n[1], n[2])
  \/ \E n \in SharedNumbers : NumberToNote(n)
  \/ NoteToNumberBack

SpecShared == Init /\ [][SharedNext]_vars

(***************************************************************************)
(* Properties of the pitch codec (SpecCodec).                              *)
(***************************************************************************)
\* The names of the seven natural notes, solfege and letter, with their
\* chromatic offset from C, as music theory has them.
NaturalNames ==
  << << <<"D","O">>, 0 >>, << <<"D","Ó">>, 0 >>, << <<"C">>, 0 >>,
     << <<"R","E">>, 2 >>, << <<"R","É">>, 2 >>, << <<"D">>, 2 >>,
     << <<"M","I">>, 4 >>, << <<"E">>, 4 >>,
     << <<"F","A">>, 5 >>, << <<"F","Á">>, 5 >>, << <<"F">>, 5 >>,
     << <<"S","O","L">>, 7 >>, << <<"G">>, 7 >>,
     << <<"L","A">>, 9 >>, << <<"L","Á">>, 9 >>, << <<"A">>, 9 >>,
     << <<"S","I">>, 11 >>, << <<"B">>, 11 >> >>

\* E and B have no sharp among the 12 names
HasSharp(offset) == offset \in {0, 2, 5, 7, 9}

\* the documented spellings with the chromatic offset each one names
Spellings ==
  UNION { { <<v, NaturalNames[i][2]>> : v \in CaseVariants(NaturalNames[i][1]) }
          \cup
          ( IF HasSharp(NaturalNames[i][2])
            THEN { <<v, NaturalNames[i][2] + 1>> :
                     v \in CaseVariants(NaturalNames[i][1] \o <<"#">>) }
            ELSE {} )
        : i \in 1..Len(NaturalNames) }

Documented(note) == \E sp \in Spellings : sp[1] = note
OffsetOf(note) == (CHOOSE sp \in Spellings : sp[1] = note)[2]

\* a note_to_number call on a documented spelling followed by number_to_note
ParsedThenFormatted ==
  /\ note_arg # None /\ note_ret # None
  /\ Documented(the(note_arg)[1])

\* C8: formatting the index parsed from a documented spelling n at octave
\* o >= 0 gives the NOTES_PT name of n's pitch class and the octave o
C8_RoundTripNote ==
  ParsedThenFormatted =>
    note_ret = Some(<<NOTES_PT[OffsetOf(the(note_arg)[1]) + 1],
                      the(note_arg)[2]>>)

\* a lower-case accented sharp spelling at the highest octave went round
C8_Witness ==
  /\ ParsedThenFormatted
  /\ the(note_arg) = <<<<"f","á","#">>, MaxOctave>>
  /\ note_ret = Some(<<<<"F","á","#">>, MaxOctave>>)

\* a number given by the caller went through number_to_note and back
FormattedThenParsed ==
  note_arg = None /\ number # None /\ number_back # None

\* C9: parsing what number_to_note gave for any index i, negative ones
\* included, gives i again, the octave being floor(i / 12) and the name the
\* one at offset i - 12 * octave in 0..11
C9_RoundTripIndex ==
  FormattedThenParsed =>
    LET i == the(number).returns
        octave == the(note_ret)[2]
    IN  /\ number_back = Some(Return(i))
        /\ 12 * octave <= i /\ i < 12 * octave + 12
        /\ the(note_ret)[1] = NOTES_PT[i - 12 * octave + 1]

\* the index -1 came back from Si of octave -1
C9_Witness ==
  /\ FormattedThenParsed
  /\ number = Some(Return(-1))
  /\ note_ret = Some(<<<<"S","i">>, -1>>)
  /\ number_back = Some(Return(-1))

LetterOffsets ==
  << <<"C", 0>>, <<"D", 2>>, <<"E", 4>>, <<"F", 5>>, <<"G", 7>>, <<"A", 9>>,
     <<"B", 11>> >>

IsMinorKey(key) == Len(key) > 0 /\ key[Len(key)] = "m"
TonicOf(key) == IF IsMinorKey(key) THEN SubSeq(key, 1, Len(key) - 1) ELSE key

\* a letter, then at most one accidental, then at most one "m"
WellSpelled(key) ==
  LET tonic == TonicOf(key)
  IN  /\ Len(tonic) \in {1, 2}
      /\ tonic[1] \in dict_keys(LetterOffsets)
      /\ Len(tonic) = 2 => tonic[2] \in {"#", "b"}

PitchClass(key) ==
  LET tonic == TonicOf(key)
      accidental == IF Len(tonic) = 1 THEN 0
                    ELSE IF tonic[2] = "#" THEN 1 ELSE -1
  IN  (dict_get(LetterOffsets, tonic[1], 0) + accidental) % 12

\* the same pitch class and mode; keys that spell no pitch class are the
\* same only when they are the same string
SameKey(k1, k2) ==
  IF WellSpelled(k1) /\ WellSpelled(k2)
  THEN PitchClass(k1) = PitchClass(k2) /\ IsMinorKey(k1) = IsMinorKey(k2)
  ELSE k1 = k2

\* keys whose tonic is one of the 12 names or one of the 5 flat aliases
RecognisedKeys ==
  { t \o m : t \in Range(NOTES_EN) \cup dict_keys(key_mapping),
             m \in {<<>>, <<"m">>} }

SharpBlackKeys == { <<"C","#">>, <<"D","#">>, <<"F","#">>, <<"G","#">>, <<"A","#">> }
FlatBlackKeys == { <<"D","b">>, <<"E","b">>, <<"G","b">>, <<"A","b">>, <<"B","b">> }

\* one transpose_key call on a key of MAJOR_KEYS or MINOR_KEYS
ListedKeyTransposed ==
  key_arg # None /\ the(key_arg) \in ListedKeys /\ key_calls = 1

\* C3 as stated: transposing a listed key by 0 returns the same spelling,
\* and C transposed by 12 is C
C3_IdentityExact ==
  /\ (ListedKeyTransposed /\ semitones_total = 0) => key_ret = key_arg
  /\ (key_arg = Some(<<"C">>) /\ key_calls = 1 /\ semitones_total = 12)
       => key_ret = Some(<<"C">>)

\* the listed keys that transpose_key respells, with the spelling it gives
Respelled ==
  << << <<"F","#">>, <<"G","b">> >>, << <<"C","#">>, <<"D","b">> >>,
     << <<"B","b","m">>, <<"A","#","m">> >>,
     << <<"E","b","m">>, <<"D","#","m">> >>,
     << <<"A","b","m">>, <<"G","#","m">> >> >>

\* C3 amended: transposing a listed key by 0 returns the same spelling,
\* except for F#, C#, Bbm, Ebm and Abm, which come back as Gb, Db, A#m, D#m
\* and G#m; and C transposed by 12 is C
C3_IdentityUpToRespelling ==
  /\ (ListedKeyTransposed /\ semitones_total = 0)
       => key_ret = Some(dict_get(Respelled, the(key_arg), the(key_arg)))
  /\ (key_arg = Some(<<"C">>) /\ key_calls = 1 /\ semitones_total = 12)
       => key_ret = Some(<<"C">>)

\* F# transposed by 0 came back as Gb
C3_Witness ==
  /\ key_arg = Some(<<"F","#">>)
  /\ key_calls = 1 /\ semitones_total = 0
  /\ key_ret = Some(<<"G","b">>)

\* C4: a listed key transposed by n is a key of the same mode whose tonic
\* has the pitch class (pitch class of the key + n) mod 12
C4_ListedKeysTransposed ==
  ListedKeyTransposed =>
    /\ WellSpelled(the(key_ret))
    /\ IsMinorKey(the(key_ret)) = IsMinorKey(the(key_arg))
    /\ PitchClass(the(key_ret))
         = (PitchClass(the(key_arg)) + semitones_total) % 12

\* C5: from a recognised major key the result is never C#, D#, F#, G# or A#
\* but one of the seven naturals or Db, Eb, Gb, Ab, Bb; from a recognised
\* minor key it is a name of NOTES_EN followed by m; C + 1 is Db, Am + 1 is
\* A#m
C5_EnharmonicAsymmetry ==
  /\ (key_arg # None /\ the(key_arg) \in RecognisedKeys
        /\ key_calls >= 1)
       => IF IsMinorKey(the(key_arg))
          THEN /\ IsMinorKey(the(key_ret))
               /\ TonicOf(the(key_ret)) \in Range(NOTES_EN)
          ELSE /\ the(key_ret) \notin SharpBlackKeys
               /\ the(key_ret) \in (Range(NOTES_EN) \ SharpBlackKeys)
                                      \cup FlatBlackKeys
  /\ (key_arg = Some(<<"C">>) /\ key_calls = 1 /\ semitones_total = 1)
       => key_ret = Some(<<"D","b">>)
  /\ (key_arg = Some(<<"A","m">>) /\ key_calls = 1 /\ semitones_total = 1)
       => key_ret = Some(<<"A","#","m">>)

\* Am transposed by 1 came back as A#m
C5_WitnessMinor ==
  /\ key_arg = Some(<<"A","m">>)
  /\ key_calls = 1 /\ semitones_total = 1
  /\ key_ret = Some(<<"A","#","m">>)

\* C6: transposing by a and then by b gives the pitch class and mode that
\* transposing by a + b gives
C6_Composes ==
  key_calls = 2 =>
    SameKey(the(key_ret), transpose_key(the(key_arg), semitones_total))

\* Bbm was transposed twice, 8 down in all, and came back as Dm
C6_Witness ==
  /\ key_arg = Some(<<"B","b","m">>)
  /\ key_calls = 2 /\ semitones_total = -8
  /\ key_ret = Some(<<"D","m">>)

\* C7: transposing a key (a letter, an optional accidental, an optional m)
\* by n and then by -n gives a key of the pitch class and mode of the key
\* it started from
C7_ThereAndBack ==
  (key_calls = 2 /\ semitones_total = 0 /\ WellSpelled(the(key_arg)))
    => /\ WellSpelled(the(key_ret))
       /\ PitchClass(the(key_ret)) = PitchClass(the(key_arg))
       /\ IsMinorKey(the(key_ret)) = IsMinorKey(the(key_arg))

\* F# went up by some n and down by n again and came back as Gb
C7_Witness ==
  /\ key_arg = Some(<<"F","#">>)
  /\ key_calls = 2 /\ semitones_total = 0
  /\ key_ret = Some(<<"G","b">>)


\* the tonic of a key as the 12 names have it: the key without its trailing
\* mode marker, a flat spelling replaced by its sharp alias
NormalisedTonic(key) == dict_get(key_mapping, TonicOf(key), TonicOf(key))

Unrecognised(key) == NormalisedTonic(key) \notin Range(NOTES_EN)

\* C11: a key whose tonic, after the flat-to-sharp alias mapping, is none of
\* the 12 canonical names is returned unchanged whatever the semitone count
C11_UnrecognisedUnchanged ==
  (key_calls >= 1 /\ Unrecognised(the(key_arg))) => key_ret = key_arg

\* the solfege name of each letter
LetterNames ==
  << <<"C", <<"D","ó">> >>, <<"D", <<"R","é">> >>, <<"E", <<"M","i">> >>,
     <<"F", <<"F","á">> >>, <<"G", <<"S","o","l">> >>, <<"A", <<"L","á">> >>,
     <<"B", <<"S","i">> >> >>

\* the name of a well-spelled key: the solfege name of the letter, the
\* accidental, then the mode
NameInPortuguese(key) ==
  LET tonic == TonicOf(key)
  IN  dict_get(LetterNames, tonic[1], <<>>)
        \o SubSeq(tonic, 2, Len(tonic))
        \o (IF IsMinorKey(key) THEN <<" ","m","e","n","o","r">>
            ELSE <<" ","M","a","i","o","r">>)

\* C18: get_key_name_pt gives every key of the two lists of 15 its name in
\* Portuguese, and gives back any other key as it was passed
C18_KeyNames ==
  /\ Len(MAJOR_KEYS) = 15 /\ Len(MINOR_KEYS) = 15
  /\ key_name # None =>
       IF the(name_arg) \in ListedKeys
       THEN key_name = Some(NameInPortuguese(the(name_arg)))
       ELSE key_name = name_arg

\* B flat minor transposed by 0 comes back as A sharp minor and is named
C18_Witness ==
  /\ key_arg = Some(<<"B","b","m">>)
  /\ semitones_total = 0
  /\ name_arg = Some(<<"A","#","m">>)
  /\ key_name = Some(<<"L","á","#"," ","m","e","n","o","r">>)

\* C26: what transpose_key returns for a recognised key is a recognised key
\* again, is left as it is by a transposition by 0, and has its name in
\* keys_pt, so that the name shown for a computed key is never the key symbol
C26_ResultsNormalised ==
  (key_calls >= 1 /\ the(key_arg) \in RecognisedKeys) =>
    /\ the(key_ret) \in RecognisedKeys
    /\ transpose_key(the(key_ret), 0) = the(key_ret)
    /\ the(key_ret) \in dict_keys(keys_pt)
    /\ name_arg # None => (name_arg = key_ret /\ key_name # name_arg)

\* D#, which no list has, comes back as Eb and is named Mib Maior
C26_Witness ==
  /\ key_arg = Some(<<"D","#">>)
  /\ key_calls = 1 /\ semitones_total = 0
  /\ key_ret = Some(<<"E","b">>)
  /\ name_arg = Some(<<"E","b">>)
  /\ key_name = Some(<<"M","i","b"," ","M","a","i","o","r">>)

\* C27: 12 semitones more or less give the same key, spelled the same, for
\* every key string and every semitone count
C27_TwelvePeriodic ==
  key_calls = 1 =>
    /\ key_ret = Some(transpose_key(the(key_arg), semitones_total + 12))
    /\ key_ret = Some(transpose_key(the(key_arg), semitones_total - 12))

\* A minor 11 semitones down is A# minor, as 1 semitone up is
C27_Witness ==
  /\ key_arg = Some(<<"A","m">>)
  /\ key_calls = 1 /\ semitones_total = -11
  /\ key_ret = Some(<<"A","#","m">>)

(***************************************************************************)
(* Properties of the transposition solver (Spec).                          *)
(***************************************************************************)
voice == the(vocal_range)
song == the(song_range)
margin_given == the(comfort_margin)

\* calculate_transposition returned a shift
Solved == pc = "calculated" /\ the(transposition)[1] # None
shift == the(the(transposition)[1])

\* the song moved by t leaves the margin m clear at both ends of the voice
Clear(t, m) ==
  /\ song.lowest + t >= voice.lowest + m
  /\ song.highest + t <= voice.highest - m

\* C1 as stated: for every compatible pair and margin the returned shift
\* keeps the margin clear at both ends
C1_MarginAlwaysClear ==
  (pc = "calculated" /\ song.range <= voice.range)
    => Solved /\ Clear(shift, margin_given)

\* C1 amended: for every compatible pair and margin for which some shift
\* keeps the margin clear at both ends, the returned shift does
C1_MarginClearWhenPossible ==
  (/\ pc = "calculated" /\ song.range <= voice.range
   /\ \E t \in (voice.lowest + margin_given - song.lowest)
                 ..(voice.highest - margin_given - song.highest) :
        Clear(t, margin_given))
    => Solved /\ Clear(shift, margin_given)

\* a song of span 5 in a voice of span 11 was solved with margin 3 and has
\* exactly that margin clear at both ends
C1_Witness ==
  /\ Solved
  /\ song.range = 5 /\ voice.range = 11
  /\ margin_given = 3
  /\ song.lowest + shift = voice.lowest + 3
  /\ song.highest + shift = voice.highest - 3

\* C2: when the spare span is at least twice the margin the transposed
\* boundaries keep the margin clear; the voice 24..55 with the song 41..62
\* in C and margin 2 gets a shift and a new key with the song in 26..53
C2_SpareCoversMargin ==
  /\ (pc = "calculated" /\ song.range <= voice.range
        /\ voice.range - song.range >= 2 * margin_given)
       => /\ Solved
          /\ song.lowest + shift >= voice.lowest + margin_given
          /\ song.highest + shift <= voice.highest - margin_given
  /\ (/\ pc = "calculated"
      /\ voice.lowest = 24 /\ voice.highest = 55
      /\ song.lowest = 41 /\ song.highest = 62
      /\ song.original_key = Some(<<"C">>)
      /\ margin_given = 2)
       => /\ the(transposition)[1] # None
          /\ the(transposition)[3] # None
          /\ song.lowest + shift >= 26
          /\ song.highest + shift <= 53

\* the example of app.py was solved: one octave down, still in C
C2_WitnessExample ==
  /\ pc = "calculated"
  /\ voice.lowest_note = <<"D","ó","2">> /\ voice.highest_note = <<"S","o","l","4">>
  /\ song.lowest_note = <<"F","á","3">> /\ song.highest_note = <<"R","é","5">>
  /\ voice.lowest = 24 /\ voice.highest = 55
  /\ song.lowest = 41 /\ song.highest = 62
  /\ margin_given = 2
  /\ transposition = Some(<<Some(-12), MsgSuccess, Some(<<"C">>)>>)

\* the spans of the two ranges, from their boundaries
voice_span == voice.highest - voice.lowest
song_span == song.highest - song.lowest

\* calculate_transposition reported the incompatibility: no shift, no key
Incompatible ==
  /\ the(transposition)[1] = None
  /\ the(transposition)[2] = MsgTooWide
  /\ the(transposition)[3] = None

\* C12: when the song spans more than the voice, calculate_transposition
\* reports the incompatibility and calculate_transpositions returns the
\* empty list; calculate_transposition gives no shift in that case only
C12_TooWideRejected ==
  /\ pc = "calculated" =>
       /\ song_span > voice_span => Incompatible
       /\ the(transposition)[1] = None => song_span > voice_span
  /\ (pc = "enumerated" /\ song_span > voice_span) => candidates = Some(<<>>)

C12_Witness ==
  /\ pc = "calculated"
  /\ song_span = voice_span + 1
  /\ song.original_key # None
  /\ Incompatible

\* calculate_transpositions returned its list
Enumerated == pc = "enumerated"
returned == the(candidates)

\* C13: calculate_transpositions returns at most 3 entries; the shift of
\* every entry keeps the margin clear at both ends of the voice, and the
\* entry reports the distances left at the low and at the high end
C13_CandidatesWithinMargin ==
  Enumerated =>
    /\ Len(returned) <= 3
    /\ \A i \in 1..Len(returned) :
         LET t == returned[i].transposition
         IN  /\ song.lowest + t >= voice.lowest + margin_given
             /\ song.highest + t <= voice.highest - margin_given
             /\ returned[i].margin_low = song.lowest + t - voice.lowest
             /\ returned[i].margin_high = voice.highest - (song.highest + t)

C13_Witness ==
  /\ Enumerated
  /\ margin_given = 2
  /\ Len(returned) = 3
  /\ returned[1].margin_low = 2
  /\ returned[3].margin_high = 2

\* twice the distance from the centre of the song to the centre of the voice
TwiceCentreDistance ==
  (voice.lowest + voice.highest) - (song.lowest + song.highest)

Abs(n) == IF n < 0 THEN -n ELSE n

\* the integer nearest to d / 2, the even one of the two when d is odd
NearestToHalf(d) ==
  CHOOSE c \in -(Abs(d) + 1)..(Abs(d) + 1) :
    /\ Abs(2 * c - d) <= 1
    /\ Abs(2 * c - d) = 1 => c % 2 = 0

BaseShift == NearestToHalf(TwiceCentreDistance)

\* the shifts of the window around the base shift that keep the margin clear
Survivors == { t \in (BaseShift - 6)..(BaseShift + 6) : Clear(t, margin_given) }

ReturnedShifts == { returned[i].transposition : i \in 1..Len(returned) }

\* the two margins a shift leaves, added
TotalAt(t) ==
  (song.lowest + t - voice.lowest) + (voice.highest - (song.highest + t))

\* C14: the entries returned are survivors among the 13 shifts from 6 below
\* to 6 above the base shift, 3 of them or all when fewer survive, in
\* descending order of their total margin, and no survivor left out has a
\* larger total margin than a returned one; the sort is stable, so among
\* survivors of equal total margin the lower shift, tried first, comes first
C14_BestOfWindow ==
  (Enumerated /\ song_span <= voice_span) =>
    LET survivors == Survivors
        left_out == survivors \ ReturnedShifts
    IN  /\ ReturnedShifts \subseteq survivors
        /\ Cardinality(ReturnedShifts) = Len(returned)
        /\ Len(returned) = (IF Cardinality(survivors) < 3
                            THEN Cardinality(survivors) ELSE 3)
        /\ \A i \in 1..Len(returned) :
             returned[i].margin_low + returned[i].margin_high
               = TotalAt(returned[i].transposition)
        /\ \A i \in 1..Len(returned), j \in 1..Len(returned) :
             i < j => TotalAt(returned[i].transposition)
                        >= TotalAt(returned[j].transposition)
        /\ \A t \in ReturnedShifts, u \in left_out :
             TotalAt(t) >= TotalAt(u)
        /\ \A i \in 1..Len(returned), j \in 1..Len(returned) :
             (/\ i < j
              /\ TotalAt(returned[i].transposition)
                   = TotalAt(returned[j].transposition))
               => returned[i].transposition < returned[j].transposition
        /\ \A t \in ReturnedShifts, u \in left_out :
             TotalAt(t) = TotalAt(u) => t < u

\* more than 3 shifts survive and the lowest of the window is one of them
C14_Witness ==
  /\ Enumerated
  /\ margin_given = 1
  /\ Cardinality(Survivors) = 13
  /\ Len(returned) = 3
  /\ returned[1].transposition = BaseShift - 6

\* C15: check_compatibility answers True exactly when the span of the song
\* is at most the span of the voice, wherever the two ranges lie
C15_CompatibleIffSpanFits ==
  pc = "checked" => compatible = Some(song_span <= voice_span)

\* equal spans, the whole song above the voice
C15_Witness ==
  /\ pc = "checked"
  /\ song_span = voice_span
  /\ song.lowest > voice.highest
  /\ compatible = Some(TRUE)

\* the range a builder makes of the boundaries (note, octave, note, octave)
\* it was given: the two pitch indices as given, their difference, and the
\* two names as typed with the octave behind
BuiltAsGiven(range, in) ==
  /\ range.lowest = 12 * in[2] + OffsetOf(in[1])
  /\ range.highest = 12 * in[4] + OffsetOf(in[3])
  /\ range.range = range.highest - range.lowest
  /\ range.lowest_note = in[1] \o int_str(in[2])
  /\ range.highest_note = in[3] \o int_str(in[4])

BoundariesDocumented(in) == Documented(in[1]) /\ Documented(in[3])

\* C16: the builders make a range of any two documented boundaries, in
\* whatever order: the span is highest - lowest as given, negative when the
\* low boundary lies above the high one, and such ranges are accepted by
\* check_compatibility and the solvers; the display strings are the names as
\* typed followed by the octave
C16_RangeBuiltAsGiven ==
  /\ (vocal_in # None /\ BoundariesDocumented(the(vocal_in)))
       => (vocal_range # None /\ BuiltAsGiven(voice, the(vocal_in)))
  /\ (song_in # None /\ BoundariesDocumented(the(song_in)))
       => (song_range # None /\ BuiltAsGiven(song, the(song_in))
           /\ song.original_key = the(song_in)[5])
  /\ (song_range # None /\ song_span < 0 /\ song_span <= voice_span)
       => /\ pc = "checked" => compatible = Some(TRUE)
          /\ pc = "calculated" => the(transposition)[1] # None
          /\ (pc = "enumerated" /\ voice_span - song_span >= 2 * margin_given)
               => Len(returned) > 0

\* both ranges upside down and typed in lower case, and a shift found
C16_Witness ==
  /\ Solved
  /\ voice.lowest_note = <<"d","ó","1">> /\ voice.highest_note = <<"g","0">>
  /\ voice_span = -5
  /\ song.lowest_note = <<"l","á","#","0">> /\ song.highest_note = <<"c","0">>
  /\ song_span = -10

\* C20: both solvers start from the same base shift, the difference of the
\* two centres rounded to the nearest integer, an exact half going to the
\* even neighbour: 2.5 gives 2, 3.5 gives 4 and -2.5 gives -2.
\* calculate_transposition returns the base shift whenever it keeps the
\* margin clear, and calculate_transpositions tries the shifts from 6 below
\* it to 6 above it in ascending order
C20_BaseShiftHalfToEven ==
  /\ (Solved /\ Clear(BaseShift, margin_given)) => shift = BaseShift
  /\ Enumerated =>
       /\ \A i \in 1..Len(returned) :
            /\ returned[i].transposition >= BaseShift - 6
            /\ returned[i].transposition <= BaseShift + 6
       /\ Clear(BaseShift - 6, margin_given) =>
            /\ Len(returned) > 0
            /\ returned[1].transposition = BaseShift - 6
  /\ (Solved /\ TwiceCentreDistance = 5 /\ Clear(2, margin_given))
       => shift = 2
  /\ (Solved /\ TwiceCentreDistance = 7 /\ Clear(4, margin_given))
       => shift = 4
  /\ (Solved /\ TwiceCentreDistance = -5 /\ Clear(-2, margin_given))
       => shift = -2

\* the centres are 2.5 apart downwards and the shift is -2
C20_Witness ==
  /\ Solved
  /\ TwiceCentreDistance = -5
  /\ margin_given = 0
  /\ shift = -2

\* the low-margin fix, then the high-margin fix on the shift the low one
\* left: the shift is raised until the low boundary keeps the margin, and
\* the result is lowered until the high boundary keeps it
RaisedShift ==
  IF song.lowest + BaseShift < voice.lowest + margin_given
  THEN voice.lowest + margin_given - song.lowest
  ELSE BaseShift

LoweredAfterRaising ==
  IF song.highest + RaisedShift > voice.highest - margin_given
  THEN RaisedShift
       - (song.highest + RaisedShift - (voice.highest - margin_given))
  ELSE RaisedShift

\* C21: the high-margin fix of calculate_transposition is evaluated against
\* the shift the low-margin fix has already adjusted: its test and the
\* excess it subtracts are computed from song.highest plus that shift
C21_HighFixOnAdjustedShift ==
  Solved => shift = LoweredAfterRaising

\* a voice or a song with the given boundaries
RangeOf(lowest, highest) ==
  [lowest |-> lowest, highest |-> highest, range |-> highest - lowest,
   original_key |-> None]

\* both tests of calculate_transposition succeed for the base shift
BothFixes(v, s, m) ==
  LET base == center_shift(v, s)
  IN  /\ check_compatibility(v, s)
      /\ s.lowest + base < v.lowest + m
      /\ s.highest + base > v.highest - m

\* the statements of calculate_transposition with the two `if` blocks in
\* the other order: the high-margin fix first, then the low-margin fix
ShiftHighFixFirst(v, s, m) ==
  LET center_transpose == center_shift(v, s)
      transposed_lowest == s.lowest + center_transpose
      transposed_highest == s.highest + center_transpose
      lowered ==
        IF transposed_highest > v.highest - m
        THEN center_transpose
             - (transposed_highest - (v.highest - m))
        ELSE center_transpose
  IN  IF transposed_lowest < v.lowest + m
      THEN lowered + (v.lowest + m - transposed_lowest)
      ELSE lowered

ShiftAsImplemented(v, s, m) ==
  the(calculate_transposition(v, s, m)[1])

\* C22: the two margin fixes are order-sensitive: for some compatible voice
\* and song and a margin that triggers both fixes, the high-margin fix
\* applied before the low-margin fix gives another final shift than the
\* order of calculate_transposition
C22_OrderSensitive ==
  \E vl \in 0..MaxPitch, vh \in 0..MaxPitch, sl \in 0..MaxPitch,
     sh \in 0..MaxPitch, m \in 0..MaxMargin :
    /\ BothFixes(RangeOf(vl, vh), RangeOf(sl, sh), m)
    /\ ShiftHighFixFirst(RangeOf(vl, vh), RangeOf(sl, sh), m)
         # ShiftAsImplemented(RangeOf(vl, vh), RangeOf(sl, sh), m)

\* what the voice spans more than the song
Spare == voice_span - song_span

\* the distances the returned shift leaves at the two ends of the voice
MarginLow == song.lowest + shift - voice.lowest
MarginHigh == voice.highest - (song.highest + shift)

\* C23: whatever the margin, the shift calculate_transposition returns for a
\* compatible pair leaves floor(s/2) at one end and ceil(s/2) at the other,
\* s being the span of the voice minus the span of the song: neither
\* distance is negative and they differ by at most 1
C23_MarginsAreHalvesOfSpare ==
  Solved =>
    LET floor_half == Spare \div 2
        ceil_half == Spare - floor_half
    IN  /\ \/ MarginLow = floor_half /\ MarginHigh = ceil_half
           \/ MarginLow = ceil_half /\ MarginHigh = floor_half
        /\ MarginLow >= 0 /\ MarginHigh >= 0
        /\ Abs(MarginLow - MarginHigh) <= 1

\* a margin of 3 asked for when the voice has 1 semitone to spare
C23_Witness ==
  /\ Solved
  /\ margin_given = 3
  /\ Spare = 1
  /\ MarginLow + MarginHigh = 1

\* the i-th smallest of a set of integers
Smallest(set, i) ==
  CHOOSE t \in set : Cardinality({ u \in set : u < t }) = i - 1

\* C24: every shift that survives the margin test has the same total margin,
\* the span of the voice minus the span of the song, so the sort moves
\* nothing and the list returned holds the three smallest surviving shifts,
\* or all when fewer survive, in ascending order
C24_SmallestSurvivors ==
  Enumerated =>
    LET survivors == Survivors
    IN  /\ \A t \in survivors : TotalAt(t) = voice_span - song_span
        /\ \A i \in 1..Len(returned) :
             returned[i].margin_low + returned[i].margin_high
               = voice_span - song_span
        /\ Len(returned) = (IF Cardinality(survivors) < 3
                            THEN Cardinality(survivors) ELSE 3)
        /\ \A i \in 1..Len(returned) :
             returned[i].transposition = Smallest(survivors, i)

\* 5 shifts survive a margin of 2 and the 3 lowest are returned
C24_Witness ==
  /\ Enumerated
  /\ margin_given = 2
  /\ Cardinality(Survivors) = 5
  /\ Len(returned) = 3
  /\ returned[3].transposition = returned[1].transposition + 2
  /\ returned[1].margin_low = 2

\* every shift that could move the song anywhere near the voice
AnyShift ==
  LET far == Abs(voice.lowest) + Abs(voice.highest) + Abs(song.lowest)
               + Abs(song.highest) + margin_given
  IN  -far..far

\* the shifts that passed the margin test of the loop, before the sort
SurvivingShifts ==
  LET valid == valid_transpositions(the(song.original_key), voice, song,
                                    margin_given)
  IN  { valid[i].transposition : i \in 1..Len(valid) }

\* C25: calculate_transpositions returns a non-empty list exactly when the
\* ranges are compatible and the voice spans at least twice the margin more
\* than the song; whenever any shift at all keeps the margin clear at both
\* ends, the base shift is one of the shifts that survive in the window
C25_NonEmptyIffSpare ==
  Enumerated =>
    /\ Len(returned) > 0
         <=> (song_span <= voice_span /\ Spare >= 2 * margin_given)
    /\ (\E t \in AnyShift : Clear(t, margin_given)) =>
         /\ Clear(BaseShift, margin_given)
         /\ BaseShift \in SurvivingShifts
         /\ Len(returned) > 0

\* the voice spans exactly twice the margin more than the song: one shift
\* survives, the base shift
C25_Witness ==
  /\ Enumerated
  /\ margin_given = 3
  /\ Spare = 6
  /\ Len(returned) = 1
  /\ returned[1].transposition = BaseShift

(***************************************************************************)
(* Properties of the assessment of the margins (SpecBand).                 *)
(***************************************************************************)
margin_low_given == the(margins)[1]
margin_high_given == the(margins)[2]

Adequate == margin_low_given >= 2 /\ margin_high_given >= 2
Tight == margin_low_given >= 1 /\ margin_high_given >= 1 /\ ~Adequate
Insufficient == margin_low_given < 1 \/ margin_high_given < 1

\* C17: both front ends assess the margins alike: adequate exactly when both
\* are at least 2, otherwise tight exactly when both are at least 1,
\* otherwise insufficient; every pair of margins gets exactly one assessment
C17_SameBands ==
  /\ card # None =>
       /\ card = Some("Margens Adequadas") <=> Adequate
       /\ card = Some("Margens Justas") <=> Tight
       /\ card = Some("Margens Insuficientes") <=> Insufficient
  /\ report # None =>
       /\ report = Some("Margens adequadas para execução confortável")
            <=> Adequate
       /\ report = Some("Margens justas - cantar com cuidado") <=> Tight
       /\ report = Some("Margens insuficientes - pode ser desconfortável")
            <=> Insufficient
  /\ Cardinality({ i \in 1..3 : <<Adequate, Tight, Insufficient>>[i] }) = 1

\* one margin of 1 below a margin of 3: both front ends say tight
C17_Witness ==
  /\ margins = Some(<<1, 3>>)
  /\ card = Some("Margens Justas")
  /\ report = Some("Margens justas - cantar com cuidado")

(***************************************************************************)
(* Properties of the shared calculator (SpecShared).                       *)
(***************************************************************************)
\* what each operation gives for the arguments of its caller when nothing
\* else is called
VocalRangeAlone ==
  define_vocal_range(the(vocal_in)[1], the(vocal_in)[2],
                     the(vocal_in)[3], the(vocal_in)[4])
SongRangeAlone ==
  define_song_range(the(song_in)[1], the(song_in)[2], the(song_in)[3],
                    the(song_in)[4], the(song_in)[5])

\* the chain of transpose_key calls run alone, for some semitone counts
\* that add up to the total
RECURSIVE ChainResults(_, _, _)
ChainResults(key, calls, total) ==
  IF calls = 0 THEN IF total = 0 THEN {key} ELSE {}
  ELSE UNION { ChainResults(transpose_key(key, n), calls - 1, total - n)
               : n \in SharedSemitones }

\* C19: whatever calls of other callers came in between, and in whatever
\* order the operations were called on one pair of ranges, the ranges are
\* still as the builders made them of their arguments, and every result is
\* what the operation gives for its arguments when it runs alone
C19_CallsDoNotInterfere ==
  /\ vocal_range # None => Return(voice) = VocalRangeAlone
  /\ song_range # None => Return(song) = SongRangeAlone
  /\ compatible # None =>
       compatible = Some(check_compatibility(VocalRangeAlone.returns,
                                             SongRangeAlone.returns))
  /\ transposition # None =>
       transposition = Some(calculate_transposition(VocalRangeAlone.returns,
                                                    SongRangeAlone.returns,
                                                    margin_given))
  /\ candidates # None =>
       candidates =
         Some(calculate_transpositions(the(the(song_in)[5]),
                                       VocalRangeAlone.returns,
                                       SongRangeAlone.returns, margin_given))
  /\ (note_arg # None /\ number # None /\ note_ret = None) =>
       number = Some(note_to_number(the(note_arg)[1], the(note_arg)[2]))
  /\ note_ret # None => note_ret = Some(number_to_note(the(number).returns))
  /\ number_back # None =>
       number_back = Some(note_to_number(the(note_ret)[1], the(note_ret)[2]))
  /\ key_ret # None =>
       the(key_ret) \in ChainResults(the(key_arg), key_calls, semitones_total)

\* every caller has had its results: the three operations on the ranges,
\* two transpose_key calls and a note converted there and back
C19_Witness ==
  /\ compatible # None /\ transposition # None /\ candidates # None
  /\ the(transposition)[1] # None
  /\ Len(returned) = 3
  /\ key_calls = 2
  /\ number_back # None

====
